---- MODULE Spec2Model ----
(***************************************************************************)
(* Content pipeline (markshield07/content-scraper): the draft store of     *)
(* execution/generate_posts.py (save_drafts), the generation run (main)    *)
(* with filter_posts and check_similarity, the wait for the actor run and  *)
(* the record normalizer of execution/scrape_x.py, and the write-back of   *)
(* execution/generate_images.py (process_drafts).                          *)
(***************************************************************************)
EXTENDS Integers, Sequences, FiniteSets, TLC

VARIABLES
    dashboard_file,  \* dashboard/drafts.json, the rolling store
    drafts_file,     \* drafts/pending_{date}.json of the date being processed
    call,            \* the last save_drafts call: its argument and how it ended
    w_pc,            \* save_drafts' position in its write of the rolling store
    w_pending,       \* the list that write is dumping
    seen,            \* what a reader of the rolling store last read
    pc,              \* generate_posts.main: where the run is
    api_key,         \* whether ANTHROPIC_API_KEY is set
    scraped,         \* the posts of .tmp/scraped_{date}.json
    posts_to_process,
    idx,             \* the loop's position in posts_to_process
    run_drafts,      \* main's list drafts: the drafts of the run so far
    events,          \* the loads, model calls and sleeps of the run, in order
    clock,           \* datetime.now()
    raw_posts,       \* scrape_x: the items of the run's dataset
    s_pc,            \* scrape_all_accounts: where the call is
    posts_out,       \* the posts scrape_all_accounts returns
    waited,          \* scrape_all_accounts: seconds waited for the actor run
    status,          \* what the last request gave: the status a poll read,
                     \* or "exception"
    polls,           \* the status polls made so far
    sim,             \* a call of check_similarity: arguments and return value
    flt,             \* a call of filter_posts: argument and return value
    cln,             \* the cleanup of generate_draft: model output and result
    i_pc,            \* generate_images.process_drafts: where the call is
    i_drafts,        \* process_drafts' list drafts
    i_run,           \* what that call loaded, sent to the image model, and got
    m_pc,            \* main.py: where the pipeline is
    m_trace          \* the stages main.py started and saw end, in order

storeVars == <<dashboard_file, drafts_file, call>>
rwVars == <<w_pc, w_pending, seen>>
genVars == <<pc, api_key, scraped, posts_to_process, idx, run_drafts, events, clock>>
scrapeVars == <<raw_posts, s_pc, posts_out, waited, status, polls>>
pureVars == <<sim, flt, cln>>
imgVars == <<i_pc, i_drafts, i_run>>
mainVars == <<m_pc, m_trace>>
vars == <<dashboard_file, drafts_file, call, w_pc, w_pending, seen,
          pc, api_key, scraped, posts_to_process, idx, run_drafts, events, clock,
          raw_posts, s_pc, posts_out, waited, status, polls, sim, flt,
          cln, i_pc, i_drafts, i_run, m_pc, m_trace>>

(***************************************************************************)
(* Bounds.  The source keeps the 100 most recent drafts                    *)
(* (generate_posts.py:234); the model keeps MaxKept, so that a full store  *)
(* and an eviction are reached with a handful of drafts.                   *)
(***************************************************************************)
MaxKept == 2
MaxBatch == 2

(***************************************************************************)
(* MAX_POSTS_TO_PROCESS is 10 in the source (generate_posts.py:47); the    *)
(* model caps a run at fewer posts and offers it one post more than the    *)
(* cap.                                                                    *)
(***************************************************************************)
MAX_POSTS_TO_PROCESS == 2

\* the most items a scraped dataset holds
MaxRaw == 2

\* the most pieces (words, marks, URLs) of a text given to check_similarity
MaxText == 2

\* the most items of the dataset a polled actor run delivers
MaxFetched == 1

\* scrape_x.py:30, in hours
HOURS_BACK == 12

Min(a, b) == IF a < b THEN a ELSE b

(***************************************************************************)
(* Drafts.  main gives every draft a uuid4 id and the time of its creation *)
(* (generate_posts.py:313-324); an id therefore names one draft.  Several  *)
(* drafts may share a created_at.                                          *)
(***************************************************************************)
NumDrafts == MaxKept + 2

Text(words) == [empty |-> FALSE, words |-> words]

Draft(i) ==
    [id |-> i, created_at |-> (i + 1) \div 2, source |-> 0,
     draft |-> Text({"wagmi"}), status |-> "pending"]

DraftPool == {Draft(i) : i \in 1..NumDrafts}

RECURSIVE SeqsUpTo(_, _)
SeqsUpTo(S, n) ==
    IF n = 0 THEN {<<>>}
    ELSE LET shorter == SeqsUpTo(S, n - 1)
         IN  shorter \cup {Append(s, x) : s \in {t \in shorter : Len(t) = n - 1}, x \in S}

Batches == SeqsUpTo(DraftPool, MaxBatch)

Range(s) == {s[k] : k \in 1..Len(s)}

Ids(s) == {s[k].id : k \in 1..Len(s)}

(***************************************************************************)
(* Files.  A file is absent, holds a JSON list written by json.dump        *)
(* ("json"), holds text that is not JSON, such as an empty or truncated    *)
(* file ("malformed"), or holds bytes that are not UTF-8 ("undecodable").  *)
(* content is the list of drafts the file holds in full.                   *)
(***************************************************************************)
AbsentFile == [kind |-> "absent", content |-> <<>>]

JsonFile(drafts) == [kind |-> "json", content |-> drafts]

MalformedFile(drafts) == [kind |-> "malformed", content |-> drafts]

UndecodableFile == [kind |-> "undecodable", content |-> <<>>]

(***************************************************************************)
(* save_drafts, generate_posts.py:202-239                                  *)
(***************************************************************************)

\* lines 215-222: exists() / json.load under "except json.JSONDecodeError".
\* The file is opened with encoding="utf-8": bytes that do not decode raise
\* UnicodeDecodeError, which that handler does not catch.
LoadExisting(file) ==
    CASE file.kind = "absent"      -> [raised |-> FALSE, drafts |-> <<>>]
      [] file.kind = "json"        -> [raised |-> FALSE, drafts |-> file.content]
      [] file.kind = "malformed"   -> [raised |-> FALSE, drafts |-> <<>>]
      [] file.kind = "undecodable" -> [raised |-> TRUE,  drafts |-> <<>>]

\* lines 224-228: existing_ids is computed once, before the loop
MergeNewAll(existing, drafts) == existing \o drafts

MergeNew(existing, drafts) ==
    LET existing_ids == Ids(existing)
    IN  existing \o SelectSeq(drafts, LAMBDA d : d.id \notin existing_ids)

\* line 231: list.sort(key=created_at, reverse=True), a stable sort
KeepOrder(s) == s

RECURSIVE InsertDesc(_, _)
InsertDesc(x, s) ==
    IF s = <<>> THEN <<x>>
    ELSE IF Head(s).created_at >= x.created_at
         THEN <<Head(s)>> \o InsertDesc(x, Tail(s))
         ELSE <<x>> \o s

RECURSIVE SortByCreatedDesc(_)
SortByCreatedDesc(s) ==
    IF s = <<>> THEN <<>>
    ELSE InsertDesc(s[Len(s)], SortByCreatedDesc(SubSeq(s, 1, Len(s) - 1)))

\* line 234: existing_drafts[:100]
KeepLast(s) == SubSeq(s, 1, Min(Len(s), MaxKept))

\* lines 224-234
MergeDrafts(existing, drafts) ==
    KeepLast(SortByCreatedDesc(MergeNew(existing, drafts)))

\* lines 207-211: the dated file is the batch as passed in
DatedFileMerged(drafts) == JsonFile(KeepLast(SortByCreatedDesc(drafts)))

DatedFile(drafts) == JsonFile(drafts)

\* lines 213-237: the rolling store after save_drafts(drafts); unchanged when
\* the load raises
StoreAfter(file, drafts) ==
    LET loaded == LoadExisting(file)
    IN  IF loaded.raised THEN file
        ELSE JsonFile(MergeDrafts(loaded.drafts, drafts))

\* save_drafts(drafts, date_str) as a whole
SaveDrafts(batch) ==
    /\ drafts_file' = DatedFile(batch)
    /\ dashboard_file' = StoreAfter(dashboard_file, batch)
    /\ call' = [batch |-> batch,
                before |-> dashboard_file,
                result |-> IF LoadExisting(dashboard_file).raised
                           THEN "raised" ELSE "ok"]

(***************************************************************************)
(* The store under any sequence of save_drafts calls                       *)
(***************************************************************************)
NoCall == [batch |-> <<>>, before |-> AbsentFile, result |-> "none"]

StoreIdle ==
    /\ dashboard_file = AbsentFile
    /\ drafts_file = AbsentFile
    /\ call = NoCall

StoreFiles == {AbsentFile, JsonFile(<<>>), MalformedFile(<<>>), UndecodableFile}

NoRead == [file |-> AbsentFile, during |-> FALSE, read |-> FALSE]

RWIdle ==
    /\ w_pc = "idle"
    /\ w_pending = <<>>
    /\ seen = NoRead

StoreInit ==
    /\ dashboard_file \in StoreFiles
    /\ drafts_file = AbsentFile
    /\ call = NoCall

GenIdle ==
    /\ pc = "idle"
    /\ api_key = TRUE
    /\ scraped = <<>>
    /\ posts_to_process = <<>>
    /\ idx = 0
    /\ run_drafts = <<>>
    /\ events = <<>>
    /\ clock = 0

PollIdle ==
    /\ waited = 0
    /\ status = "none"
    /\ polls = 0

ScrapeIdle ==
    /\ raw_posts = <<>>
    /\ s_pc = "idle"
    /\ posts_out = <<>>
    /\ PollIdle

NoSim ==
    [source |-> <<>>, draft |-> <<>>, done |-> FALSE, result |-> [num |-> 0, den |-> 1]]

NoFilter == [given |-> <<>>, posts |-> <<>>, done |-> FALSE, result |-> <<>>]

NoClean == [output |-> <<>>, done |-> FALSE, result |-> <<>>]

PureIdle ==
    /\ sim = NoSim
    /\ flt = NoFilter
    /\ cln = NoClean

NoRun == [loaded |-> <<>>, sent |-> <<>>, got |-> {}]

ImgIdle ==
    /\ i_pc = "idle"
    /\ i_drafts = <<>>
    /\ i_run = NoRun

MainIdle ==
    /\ m_pc = "idle"
    /\ m_trace = <<>>

Init ==
    /\ StoreInit
    /\ RWIdle
    /\ GenIdle
    /\ ScrapeIdle
    /\ PureIdle
    /\ ImgIdle
    /\ MainIdle

SaveDraftsCall ==
    /\ \E batch \in Batches : SaveDrafts(batch)
    /\ UNCHANGED <<rwVars, genVars, scrapeVars, pureVars,
                   imgVars, mainVars>>

Next == SaveDraftsCall

Spec == Init /\ [][Next]_vars

(***************************************************************************)
(* A generation run: generate_posts.main, lines 242-346                    *)
(***************************************************************************)

\* A post's text, as far as filter_posts and check_similarity read it: its
\* length, whether it starts with "RT @", its length once URLs are removed
\* and the rest is stripped, and its lowercase words.
PostTexts ==
    { [len |-> 61, rt |-> FALSE, no_urls |-> 61, words |-> {"gm", "frens", "mint"}],
      [len |-> 29, rt |-> FALSE, no_urls |-> 29, words |-> {"gm"}],
      [len |-> 39, rt |-> TRUE,  no_urls |-> 23, words |-> {"rt", "bob", "check"}],
      [len |-> 45, rt |-> FALSE, no_urls |-> 19, words |-> {"mint"}] }

MaxPosts == MAX_POSTS_TO_PROCESS + 1

\* load_scraped_posts, lines 120-129: the posts of the scraped file, none
\* when the file is missing
ScrapedPosts(texts) ==
    [k \in 1..Len(texts) |-> [id |-> k, text |-> texts[k]]]

\* filter_posts, lines 132-154
FilterPostsStrict(posts) ==
    SelectSeq(posts, LAMBDA post :
        /\ ~(post.text.len <= 30)
        /\ ~post.text.rt
        /\ ~(post.text.no_urls <= 20))

FilterPosts(posts) ==
    SelectSeq(posts, LAMBDA post :
        /\ ~(post.text.len < 30)
        /\ ~post.text.rt
        /\ ~(post.text.no_urls < 20))

\* line 286: filtered_posts[:MAX_POSTS_TO_PROCESS]
PostsToProcessAll(filtered) == filtered

PostsToProcess(filtered) ==
    SubSeq(filtered, 1, Min(Len(filtered), MAX_POSTS_TO_PROCESS))

\* What client.messages.create does for one call: it raises an
\* anthropic.APIError, or returns a text (lines 169-177): no text at all, a
\* text without a word in it (emoji), or words.
ModelReplies ==
    { [error |-> TRUE,  text |-> [empty |-> TRUE, words |-> {}]],
      [error |-> FALSE, text |-> [empty |-> TRUE, words |-> {}]],
      [error |-> FALSE, text |-> Text({})],
      [error |-> FALSE, text |-> Text({"wagmi", "fam"})],
      [error |-> FALSE, text |-> Text({"gm", "fam"})],
      [error |-> FALSE, text |-> Text({"gm", "frens", "fam"})] }

\* generate_draft, lines 157-187: one call; an APIError is caught and None
\* returned; nothing else is caught
GenerateDraftUncaught(reply) ==
    [raised |-> reply.error, none |-> FALSE, text |-> reply.text]

GenerateDraft(reply) ==
    [raised |-> FALSE, none |-> reply.error, text |-> reply.text]

\* check_similarity, lines 190-199, as the fraction overlap / len(draft_words)
CheckSimilarityUnguarded(source, draft) ==
    [num |-> Cardinality(source.words \cap draft.words),
     den |-> Cardinality(draft.words)]

CheckSimilarity(source, draft) ==
    IF draft.words = {} THEN [num |-> 0, den |-> 1]
    ELSE [num |-> Cardinality(source.words \cap draft.words),
          den |-> Cardinality(draft.words)]

\* line 308: similarity > 0.5
TooSimilarAtHalf(source, draft) ==
    LET similarity == CheckSimilarity(source, draft)
    IN  2 * similarity.num >= similarity.den

TooSimilar(source, draft) ==
    LET similarity == CheckSimilarity(source, draft)
    IN  2 * similarity.num > similarity.den

\* lines 313-324: uuid4 and datetime.now() give the draft an id and a time
\* that no earlier draft has
NewDraft(post, draft_text) ==
    [id |-> clock, created_at |-> clock, source |-> post.id,
     draft |-> draft_text, status |-> "pending"]

CallEvent(post, reply) == [type |-> "call", post |-> post.id, reply |-> reply]

SleepEvent(post) == [type |-> "sleep", post |-> post.id, reply |-> <<>>]

\* lines 263-273: load_voice_profile, then load_scraped_posts
LoadEvent(what) == [type |-> "load", post |-> what, reply |-> <<>>]

Loads == <<LoadEvent("voice_profile"), LoadEvent("scraped_posts")>>

GenInit ==
    /\ dashboard_file \in StoreFiles \cup {JsonFile(<<Draft(1)>>)}
    /\ drafts_file = AbsentFile
    /\ call = NoCall
    /\ RWIdle
    /\ ScrapeIdle
    /\ PureIdle
    /\ ImgIdle
    /\ MainIdle
    /\ pc = "start"
    /\ api_key \in BOOLEAN
    /\ \E texts \in SeqsUpTo(PostTexts, MaxPosts) : scraped = ScrapedPosts(texts)
    /\ posts_to_process = <<>>
    /\ idx = 0
    /\ run_drafts = <<>>
    /\ events = <<>>
    /\ clock = NumDrafts + 1

\* lines 248-253: sys.exit(1) without the key
MissingKeyIgnored ==
    /\ pc = "start"
    /\ ~api_key
    /\ SaveDrafts(<<>>)
    /\ pc' = "done"
    /\ events' = Loads
    /\ UNCHANGED <<rwVars, scrapeVars, pureVars, imgVars, mainVars,
                   api_key, scraped,
                   posts_to_process, idx, run_drafts, clock>>

MissingKey ==
    /\ pc = "start"
    /\ ~api_key
    /\ pc' = "exit1"
    /\ UNCHANGED <<storeVars, rwVars, scrapeVars, pureVars, imgVars, mainVars,
                   api_key, scraped,
                   posts_to_process, idx, run_drafts, events, clock>>

\* lines 255-283: nothing passes the filter, the empty batch is saved
NoPosts ==
    /\ pc = "start"
    /\ api_key
    /\ FilterPosts(scraped) = <<>>
    /\ SaveDrafts(<<>>)
    /\ pc' = IF LoadExisting(dashboard_file).raised THEN "raised" ELSE "done"
    /\ events' = Loads
    /\ UNCHANGED <<rwVars, scrapeVars, pureVars, imgVars, mainVars,
                   api_key, scraped,
                   posts_to_process, idx, run_drafts, clock>>

\* lines 255-294
BeginLoop ==
    /\ pc = "start"
    /\ api_key
    /\ FilterPosts(scraped) # <<>>
    /\ posts_to_process' = PostsToProcess(FilterPosts(scraped))
    /\ idx' = 1
    /\ pc' = "loop"
    /\ events' = Loads
    /\ UNCHANGED <<storeVars, rwVars, scrapeVars, pureVars, imgVars, mainVars,
                   api_key, scraped,
                   run_drafts, clock>>

\* lines 296-331: one turn of the loop
ProcessPost ==
    /\ pc = "loop"
    /\ idx <= Len(posts_to_process)
    /\ \E reply \in ModelReplies :
        LET post == posts_to_process[idx]
            got == GenerateDraft(reply)
            called == Append(events, CallEvent(post, reply))
        IN  IF got.raised
            THEN /\ pc' = "raised"
                 /\ events' = called
                 /\ UNCHANGED <<idx, run_drafts>>
            ELSE /\ pc' = "loop"
                 /\ idx' = idx + 1
                 /\ IF got.none \/ got.text.empty \/ TooSimilar(post.text, got.text)
                    THEN /\ events' = called
                         /\ UNCHANGED run_drafts
                    ELSE /\ run_drafts' = Append(run_drafts, NewDraft(post, got.text))
                         /\ events' = IF idx < Len(posts_to_process)
                                      THEN Append(called, SleepEvent(post))
                                      ELSE called
    /\ clock' = clock + 1
    /\ UNCHANGED <<storeVars, rwVars, scrapeVars, pureVars, imgVars, mainVars,
                   api_key, scraped,
                   posts_to_process>>

\* lines 333-346
SaveResults ==
    /\ pc = "loop"
    /\ idx > Len(posts_to_process)
    /\ SaveDrafts(run_drafts)
    /\ pc' = IF LoadExisting(dashboard_file).raised THEN "raised" ELSE "done"
    /\ UNCHANGED <<rwVars, scrapeVars, pureVars, imgVars, mainVars,
                   api_key, scraped,
                   posts_to_process, idx, run_drafts, events, clock>>

NextGen == MissingKey \/ NoPosts \/ BeginLoop \/ ProcessPost \/ SaveResults

SpecGen == GenInit /\ [][NextGen]_vars

\* the posts the run called the model for, in call order
Calls == SelectSeq(events, LAMBDA e : e.type = "call")

\* the calls whose reply became a draft
Succeeded(e) ==
    /\ ~e.reply.error
    /\ ~e.reply.text.empty
    /\ ~TooSimilar(scraped[e.post].text, e.reply.text)

\* C9: the run calls the model once for each of the first
\* Min(MAX_POSTS_TO_PROCESS, n) posts of the filtered sequence, in that
\* order, and for no other post; no post is called twice.
C9_CallSequence ==
    LET filtered == FilterPosts(scraped)
        m == Min(MAX_POSTS_TO_PROCESS, Len(filtered))
    IN  /\ Len(Calls) <= m
        /\ \A k \in 1..Len(Calls) : Calls[k].post = filtered[k].id
        /\ pc \in {"done", "raised"} => Len(Calls) = m

\* a finished run over more eligible posts than the cap, with a failed call
\* and a rejected draft among its calls
C9_Witness ==
    /\ pc = "done"
    /\ Len(FilterPosts(scraped)) > MAX_POSTS_TO_PROCESS
    /\ Len(Calls) = MAX_POSTS_TO_PROCESS
    /\ \E k \in 1..Len(Calls) : Calls[k].reply.error
    /\ \E k \in 1..Len(Calls) :
          ~Calls[k].reply.error /\ ~Succeeded(Calls[k])

\* C10: a post whose call fails with an API error yields no draft, the posts
\* after it are still called, and the run saves the drafts of the posts that
\* succeeded, in order.
C10_FailureIsolation ==
    /\ \A k \in 1..Len(Calls) :
          Calls[k].reply.error =>
              /\ \A d \in Range(run_drafts) : d.source # Calls[k].post
              /\ pc # "loop" => Len(Calls) = Len(posts_to_process)
    /\ (pc \in {"done", "raised"} /\ \E k \in 1..Len(Calls) : Calls[k].reply.error) =>
          /\ call.result # "none"
          /\ drafts_file = JsonFile(call.batch)
          /\ [k \in 1..Len(call.batch) |-> call.batch[k].source]
                = [k \in 1..Len(SelectSeq(Calls, Succeeded)) |->
                      SelectSeq(Calls, Succeeded)[k].post]

\* a finished run whose first call failed and whose later call gave a draft
\* that was saved to the store
C10_Witness ==
    /\ pc = "done"
    /\ Len(Calls) > 1
    /\ Calls[1].reply.error
    /\ \E d \in Range(dashboard_file.content) : d.source = Calls[Len(Calls)].post

\* C16: without the API key the run does nothing but exit with status 1:
\* it loads neither the voice profile nor the scraped posts, calls the model
\* for no post, and writes neither the dated file nor the rolling store.
C16_ConfigFailure ==
    /\ [](~api_key =>
            /\ pc \in {"start", "exit1"}
            /\ events = <<>>
            /\ posts_to_process = <<>> /\ run_drafts = <<>>
            /\ call = NoCall
            /\ drafts_file = AbsentFile)
    /\ [][~api_key =>
            /\ pc = "start" /\ pc' = "exit1"
            /\ UNCHANGED <<dashboard_file, drafts_file, call, events>>]_vars

\* a run that exited with status 1 although there were eligible posts to
\* process and a store to merge into
C16_Witness ==
    /\ ~api_key
    /\ pc = "exit1"
    /\ FilterPosts(scraped) # <<>>
    /\ dashboard_file = JsonFile(<<Draft(1)>>)

\* the calls that returned a text: a generated draft
Generated(e) == ~e.reply.error /\ ~e.reply.text.empty

\* the overlap ratio of a call's draft with its source text is at most 1/2
AtMostHalf(e) ==
    LET ratio == CheckSimilarity(scraped[e.post].text, e.reply.text)
    IN  2 * ratio.num <= ratio.den

\* C11: the batch of the run holds, in call order, exactly the generated
\* drafts whose overlap ratio with their source text is at most 0.5; the
\* run's dated file is that batch, and no draft of the run whose ratio
\* exceeds 0.5 is in the dated file or in the rolling store.
C11_SimilarityGate ==
    LET accepted == SelectSeq(SelectSeq(Calls, Generated), AtMostHalf)
        Persisted == Range(drafts_file.content) \cup Range(dashboard_file.content)
    IN  /\ [k \in 1..Len(run_drafts) |->
                <<run_drafts[k].source, run_drafts[k].draft>>]
              = [k \in 1..Len(accepted) |-> <<accepted[k].post, accepted[k].reply.text>>]
        /\ pc \in {"done", "raised"} => drafts_file = JsonFile(run_drafts)
        /\ \A d \in Persisted :
              d.source # 0 =>
                  LET ratio == CheckSimilarity(scraped[d.source].text, d.draft)
                  IN  2 * ratio.num <= ratio.den

\* a finished run that stored a draft whose ratio is exactly 1/2 and
\* rejected a generated draft whose ratio is above it
C11_Witness ==
    /\ pc = "done"
    /\ \E d \in Range(dashboard_file.content) :
          /\ d.source # 0
          /\ LET ratio == CheckSimilarity(scraped[d.source].text, d.draft)
             IN  ratio.num > 0 /\ 2 * ratio.num = ratio.den
    /\ \E k \in 1..Len(Calls) : Generated(Calls[k]) /\ ~AtMostHalf(Calls[k])

\* C17: a run with the key that ends without a draft, because no post was
\* eligible or every call failed, returned nothing or was rejected, ends
\* normally, leaves an empty dated file, and leaves the set of drafts of the
\* rolling store as it was.
C17_ZeroResults ==
    (api_key /\ pc \in {"done", "raised"} /\ run_drafts = <<>>) =>
        /\ pc = "done"
        /\ drafts_file = JsonFile(<<>>)
        /\ Range(dashboard_file.content) = Range(call.before.content)

\* C19: a sleep of DELAY_BETWEEN_CALLS lies between any two consecutive
\* model calls of a run, whatever the earlier call gave, and no sleep follows
\* the call for the last post.
C19_Pacing ==
    /\ \A k \in 1..(Len(events) - 1) :
          events[k].type = "call" => events[k + 1].type # "call"
    /\ \A k \in 1..Len(events) :
          (events[k].type = "sleep" /\ pc # "start") =>
              events[k].post # posts_to_process[Len(posts_to_process)].id

(***************************************************************************)
(* check_similarity on texts, generate_posts.py:190-199.  A text is the    *)
(* sequence of its pieces: words as they are written, and "!" for a run of *)
(* characters that \w does not match.                                      *)
(***************************************************************************)
SimPieces == {"GM", "gm", "Fam", "fam", "mint", "!"}

SimTexts == SeqsUpTo(SimPieces, MaxText)

\* str.lower()
Lower(piece) ==
    CASE piece = "GM"  -> "gm"
      [] piece = "Fam" -> "fam"
      [] OTHER         -> piece

\* \b\w+\b matches a word and nothing of a mark
IsWord(piece) == piece # "!"

\* lines 192-193: set(re.findall(r"\b\w+\b", text.lower()))
Words(text) ==
    LET lowered == [k \in 1..Len(text) |-> Lower(text[k])]
    IN  {lowered[k] : k \in {j \in 1..Len(text) : IsWord(lowered[j])}}

Tokenized(text) == [empty |-> text = <<>>, words |-> Words(text)]

SimInit ==
    /\ StoreIdle
    /\ RWIdle
    /\ GenIdle
    /\ ScrapeIdle
    /\ ImgIdle
    /\ MainIdle
    /\ flt = NoFilter
    /\ cln = NoClean
    /\ \E source \in SimTexts, draft \in SimTexts :
           sim = [NoSim EXCEPT !.source = source, !.draft = draft]

CheckSimilarityCall ==
    /\ ~sim.done
    /\ sim' = [sim EXCEPT !.done = TRUE,
                          !.result = CheckSimilarity(Tokenized(sim.source),
                                                     Tokenized(sim.draft))]
    /\ UNCHANGED <<storeVars, rwVars, genVars, scrapeVars, imgVars, mainVars,
                   flt, cln>>

NextSim == CheckSimilarityCall

SpecSim == SimInit /\ [][NextSim]_vars

\* C12: check_similarity(S, D) is the fraction of D's distinct lowercase
\* words that are also words of S; it lies between 0 and 1, its divisor is
\* never 0, and it is 0 when D has no word.
C12_SimilarityRange ==
    sim.done =>
        LET S == {Lower(w) : w \in Range(sim.source) \ {"!"}}
            D == {Lower(w) : w \in Range(sim.draft) \ {"!"}}
            ratio == sim.result
        IN  /\ ratio.den > 0
            /\ 0 <= ratio.num /\ ratio.num <= ratio.den
            /\ D = {} => ratio.num = 0
            /\ ratio.num * Cardinality(D) = Cardinality(S \cap D) * ratio.den

\* a call whose draft is not empty and has no word in it
C12_Witness ==
    /\ sim.done
    /\ sim.draft # <<>>
    /\ Words(sim.draft) = {}
    /\ Words(sim.source) # {}
    /\ sim.result.num = 0

(***************************************************************************)
(* filter_posts on texts, generate_posts.py:132-154.  A text is the        *)
(* sequence of its pieces, written with one space between them: a word of  *)
(* len characters, a URL, or the retweet mark "RT @bob:".                  *)
(***************************************************************************)
Word(n) == [kind |-> "word", len |-> n]

Url == [kind |-> "url", len |-> 23]

RtMark == [kind |-> "rt", len |-> 8]

FilterTexts ==
    { <<>>,
      <<Word(29)>>,
      <<Word(30)>>,
      <<Word(19), Url>>,
      <<Word(20), Url>>,
      <<Url, Word(20), Url>>,
      <<Word(9), Url, Word(9)>>,
      <<Url, Url>>,
      <<RtMark, Word(30)>>,
      <<Word(5), RtMark, Word(30)>> }

RECURSIVE SumLen(_)
SumLen(text) == IF text = <<>> THEN 0 ELSE Head(text).len + SumLen(Tail(text))

\* line 141: len(text)
TextLen(text) == IF text = <<>> THEN 0 ELSE SumLen(text) + Len(text) - 1

\* line 145: text.startswith("RT @")
StartsWithRt(text) == text # <<>> /\ text[1].kind = "rt"

\* lines 148-149: re.sub(r"https?://\S+", "", text).strip() takes the URLs
\* out and leaves the spaces around them; strip() removes the spaces at
\* both ends only
LenWithoutUrls(text) ==
    LET rest == {k \in 1..Len(text) : text[k].kind # "url"}
    IN  IF rest = {} THEN 0
        ELSE LET first == CHOOSE k \in rest : \A j \in rest : k <= j
                 last == CHOOSE k \in rest : \A j \in rest : k >= j
             IN  SumLen(SelectSeq(text, LAMBDA piece : piece.kind # "url"))
                     + (last - first)

\* what filter_posts reads of a text
Measure(text) ==
    [len |-> TextLen(text), rt |-> StartsWithRt(text), no_urls |-> LenWithoutUrls(text)]

Measured(posts) ==
    [k \in 1..Len(posts) |-> [id |-> posts[k].id, text |-> Measure(posts[k].text)]]

FilterInit ==
    /\ StoreIdle
    /\ RWIdle
    /\ GenIdle
    /\ ScrapeIdle
    /\ ImgIdle
    /\ MainIdle
    /\ sim = NoSim
    /\ cln = NoClean
    /\ \E texts \in SeqsUpTo(FilterTexts, MaxRaw) :
           flt = [NoFilter EXCEPT !.given = ScrapedPosts(texts),
                                  !.posts = ScrapedPosts(texts)]

FilterPostsCall ==
    /\ ~flt.done
    /\ flt' = [flt EXCEPT !.done = TRUE,
                          !.result = FilterPosts(Measured(flt.posts))]
    /\ UNCHANGED <<storeVars, rwVars, genVars, scrapeVars, imgVars, mainVars,
                   sim, cln>>

NextFilter == FilterPostsCall

SpecFilter == FilterInit /\ [][NextFilter]_vars

\* C13: filter_posts returns, in input order, exactly the posts whose text
\* has at least 30 characters, does not start with "RT @", and has at least
\* 20 characters once its URLs are removed and the rest is stripped; the
\* input is as it was given.
C13_CandidateFilter ==
    flt.done =>
        LET eligible ==
                {k \in 1..Len(flt.given) :
                    /\ TextLen(flt.given[k].text) >= 30
                    /\ ~StartsWithRt(flt.given[k].text)
                    /\ LenWithoutUrls(flt.given[k].text) >= 20}
        IN  /\ {flt.result[j].id : j \in 1..Len(flt.result)} = eligible
            /\ Len(flt.result) = Cardinality(eligible)
            /\ \A i, j \in 1..Len(flt.result) :
                  i < j => flt.result[i].id < flt.result[j].id
            /\ flt.posts = flt.given

\* a call that dropped a retweet and kept the text after it, a text of
\* exactly 30 characters or one with exactly 20 characters beside its URL
C13_Witness ==
    /\ flt.done
    /\ Len(flt.given) = 2
    /\ flt.given[1].text = <<RtMark, Word(30)>>
    /\ flt.given[2].text \in {<<Word(30)>>, <<Word(20), Url>>}
    /\ [j \in 1..Len(flt.result) |-> flt.result[j].id] = <<2>>

(***************************************************************************)
(* The cleanup of the model output in generate_draft,                      *)
(* generate_posts.py:177-183.  An output is a sequence of pieces: a quote  *)
(* character, a label with its colon, a blank, or a word.                  *)
(***************************************************************************)

MaxOutput == 3

DoubleQuote == "dquote"
SingleQuote == "squote"
Blank == " "

OutputPieces ==
    {DoubleQuote, SingleQuote, "Post:", "tweet:", "DRAFT:", Blank, "gm"}

Outputs == SeqsUpTo(OutputPieces, MaxOutput)

\* line 180: the character class ["\']
IsQuote(p) == p \in {DoubleQuote, SingleQuote}

\* line 181: (Post|Tweet|Draft): under re.IGNORECASE
IsLabel(p) ==
    p \in {"Post:", "post:", "POST:", "Tweet:", "tweet:", "TWEET:",
           "Draft:", "draft:", "DRAFT:"}

\* str.lstrip, and the \s* of line 181
DropBlanks(t) ==
    LET kept == {k \in 1..Len(t) : t[k] # Blank}
    IN  IF kept = {} THEN <<>>
        ELSE SubSeq(t, CHOOSE k \in kept : \A j \in kept : k <= j, Len(t))

\* line 177: str.strip
Strip(t) ==
    LET kept == {k \in 1..Len(t) : t[k] # Blank}
    IN  IF kept = {} THEN <<>>
        ELSE SubSeq(t, CHOOSE k \in kept : \A j \in kept : k <= j,
                       CHOOSE k \in kept : \A j \in kept : k >= j)

\* line 180: re.sub(r'^["\']|["\']$', '', draft) removes every match of
\* either alternative: a quote at the start, and a quote at the end
StripQuotes(t) ==
    LET lead  == t # <<>> /\ IsQuote(t[1])
        trail == Len(t) >= 2 /\ IsQuote(t[Len(t)])
    IN  SubSeq(t, IF lead THEN 2 ELSE 1,
                  IF trail THEN Len(t) - 1 ELSE Len(t))

\* line 181: re.sub(r'^(Post|Tweet|Draft):\s*', '', draft, re.IGNORECASE)
StripLabel(t) ==
    IF t # <<>> /\ IsLabel(t[1]) THEN DropBlanks(Tail(t)) ELSE t

\* lines 177-183
CleanDraft(output) == StripLabel(StripQuotes(Strip(output)))

CleanInit ==
    /\ StoreIdle
    /\ RWIdle
    /\ GenIdle
    /\ ScrapeIdle
    /\ ImgIdle
    /\ MainIdle
    /\ sim = NoSim
    /\ flt = NoFilter
    /\ cln \in [output : Outputs, done : {FALSE}, result : {<<>>}]

CleanDraftCall ==
    /\ ~cln.done
    /\ cln' = [cln EXCEPT !.done = TRUE, !.result = CleanDraft(cln.output)]
    /\ UNCHANGED <<storeVars, rwVars, genVars, scrapeVars, imgVars, mainVars,
                   sim, flt>>

NextClean == CleanDraftCall

SpecClean == CleanInit /\ [][NextClean]_vars

\* C21: the cleanup removes quote characters from the stripped model output
\* only as a symmetric pair around it (the same quote character first and
\* last, one pair), then removes a leading Post:/Tweet:/Draft: label in any
\* letter case; an output with neither comes back unchanged.
C21_OutputCleanup ==
    cln.done =>
        LET t == Strip(cln.output)
            pair == /\ Len(t) >= 2
                    /\ IsQuote(t[1])
                    /\ t[Len(t)] = t[1]
            inner == IF pair THEN SubSeq(t, 2, Len(t) - 1) ELSE t
        IN  cln.result = StripLabel(inner)

(***************************************************************************)
(* The normalizer: scrape_all_accounts, scrape_x.py:111-186, and           *)
(* extract_media_urls, lines 193-211.  Times are hours.                    *)
(***************************************************************************)

\* datetime.now(timezone.utc) while the records are read
CaptureTime == 2 * HOURS_BACK

\* get_cutoff_time, lines 41-43
CutoffTime == CaptureTime - HOURS_BACK

\* A raw record, as far as the normalizer reads it.  full_text and text are
\* the two text aliases: "absent", "null", "empty" ("") or "str", a string
\* that is not empty; rt says that the string starts with "RT @".
\* created.form is how the
\* timestamp is written: "missing", "iso_offset" (ISO-8601 with an offset or
\* Z), "iso_naive" (ISO-8601 without an offset), "twitter" ("Mon Jan 26
\* 05:48:43 +0000 2026") or "garbage".  author, user and entities are
\* "absent", "null" or "dict"; a dict author or user carries a name or not.
\* media is "absent", "urls" (a list of media dicts) or "nonlist".
GoodRecord ==
    [noResults |-> FALSE, full_text |-> "str", text |-> "absent", rt |-> FALSE,
     created |-> [form |-> "iso_offset", at |-> CaptureTime - 1],
     author |-> "dict", author_name |-> TRUE,
     user |-> "absent", user_name |-> FALSE,
     media |-> "urls", entities |-> "absent"]

RawRecords ==
    { GoodRecord,
      [GoodRecord EXCEPT !.created = [form |-> "twitter", at |-> CutoffTime],
                         !.author = "absent", !.author_name = FALSE,
                         !.user = "dict", !.user_name = TRUE],
      [GoodRecord EXCEPT !.noResults = TRUE, !.full_text = "absent"],
      [GoodRecord EXCEPT !.full_text = "absent"],
      [GoodRecord EXCEPT !.full_text = "empty", !.text = "empty"],
      [GoodRecord EXCEPT !.full_text = "absent", !.text = "null"],
      [GoodRecord EXCEPT !.full_text = "absent", !.text = "str"],
      [GoodRecord EXCEPT !.full_text = "empty", !.text = "str", !.rt = TRUE],
      [GoodRecord EXCEPT !.full_text = "absent", !.author = "null",
                         !.author_name = FALSE],
      [GoodRecord EXCEPT !.full_text = "absent",
                         !.created = [form |-> "iso_naive", at |-> CaptureTime - 1]],
      [GoodRecord EXCEPT !.rt = TRUE],
      [GoodRecord EXCEPT !.rt = TRUE, !.author = "null", !.author_name = FALSE],
      [GoodRecord EXCEPT !.created = [form |-> "iso_offset", at |-> CutoffTime - 1]],
      [GoodRecord EXCEPT !.created = [form |-> "garbage", at |-> 0]],
      [GoodRecord EXCEPT !.created = [form |-> "missing", at |-> 0]],
      [GoodRecord EXCEPT !.created = [form |-> "iso_naive", at |-> CaptureTime - 1]],
      [GoodRecord EXCEPT !.created = [form |-> "iso_naive", at |-> CutoffTime - 1]],
      [GoodRecord EXCEPT !.author = "null", !.author_name = FALSE],
      [GoodRecord EXCEPT !.author = "absent", !.author_name = FALSE, !.user = "null"],
      [GoodRecord EXCEPT !.user = "null"],
      [GoodRecord EXCEPT !.media = "absent", !.entities = "null"],
      [GoodRecord EXCEPT !.media = "nonlist", !.entities = "dict"] }

\* lines 124-125: raw.get("full_text") or raw.get("text", "") is truthy
HasTextAlways(raw) == TRUE

HasText(raw) == raw.full_text = "str" \/ raw.text = "str"

\* lines 124 and 169: the text, as far as filter_posts reads it.  The
\* strings of the model's records are 39 characters long, 23 without their
\* URL ("RT @bob: check this out https://x.com/1").
RecordText(raw) ==
    IF raw.full_text = "str" \/ raw.text = "str"
    THEN [len |-> 39, rt |-> raw.rt, no_urls |-> 23]
    ELSE [len |-> 0, rt |-> FALSE, no_urls |-> 0]

\* lines 130-146: the timestamp under its aliases, parsed; a missing or
\* unparseable one is the capture time.  fromisoformat reads a timestamp
\* without an offset as a naive datetime.
ParseCreated(created) ==
    CASE created.form = "missing"    -> [aware |-> TRUE,  at |-> CaptureTime]
      [] created.form = "iso_offset" -> [aware |-> TRUE,  at |-> created.at]
      [] created.form = "iso_naive"  -> [aware |-> FALSE, at |-> created.at]
      [] created.form = "twitter"    -> [aware |-> TRUE,  at |-> created.at]
      [] created.form = "garbage"    -> [aware |-> TRUE,  at |-> CaptureTime]

\* lines 154-163: the or-chain stops at the first name it finds; .get on a
\* null author or user raises AttributeError
UsernameRaises(raw) ==
    \/ raw.author = "null"
    \/ ~(raw.author = "dict" /\ raw.author_name) /\ raw.user = "null"

Username(raw) ==
    IF (raw.author = "dict" /\ raw.author_name) \/ (raw.user = "dict" /\ raw.user_name)
    THEN "named" ELSE "unknown"

\* extract_media_urls, lines 193-211: the or-chain stops at a truthy media;
\* .get on a null entities raises AttributeError; a media that is no list
\* gives no urls
MediaRaises(raw) == raw.media = "absent" /\ raw.entities = "null"

ExtractMediaUrls(raw) == IF raw.media = "urls" THEN <<"url">> ELSE <<>>

\* lines 117-182, one record: "skip", "keep" with the post, or "raise".
\* The comparison of line 149 is outside the try of lines 136-146 and raises
\* TypeError between a naive and an aware datetime.
NormalizeRecordNoRt(raw, k) ==
    LET created_at == ParseCreated(raw.created)
    IN  IF raw.noResults \/ ~HasText(raw) THEN [outcome |-> "skip", post |-> <<>>]
        ELSE IF ~created_at.aware THEN [outcome |-> "raise", post |-> <<>>]
        ELSE IF created_at.at < CutoffTime THEN [outcome |-> "skip", post |-> <<>>]
        ELSE IF UsernameRaises(raw) \/ MediaRaises(raw)
             THEN [outcome |-> "raise", post |-> <<>>]
        ELSE [outcome |-> "keep",
              post |-> [id |-> k, username |-> Username(raw), rt |-> raw.rt,
                        text |-> RecordText(raw),
                        created_at |-> created_at.at,
                        media_urls |-> ExtractMediaUrls(raw)]]

NormalizeRecord(raw, k) ==
    LET created_at == ParseCreated(raw.created)
    IN  IF raw.noResults \/ ~HasText(raw) THEN [outcome |-> "skip", post |-> <<>>]
        ELSE IF ~created_at.aware THEN [outcome |-> "raise", post |-> <<>>]
        ELSE IF created_at.at < CutoffTime THEN [outcome |-> "skip", post |-> <<>>]
        ELSE IF UsernameRaises(raw) \/ MediaRaises(raw)
             THEN [outcome |-> "raise", post |-> <<>>]
        ELSE IF raw.rt THEN [outcome |-> "skip", post |-> <<>>]
        ELSE [outcome |-> "keep",
              post |-> [id |-> k, username |-> Username(raw), rt |-> raw.rt,
                        text |-> RecordText(raw),
                        created_at |-> created_at.at,
                        media_urls |-> ExtractMediaUrls(raw)]]

\* lines 112-186: the loop over the records; an exception that is no
\* requests.RequestException leaves scrape_all_accounts (lines 188-190)
RECURSIVE NormalizeFrom(_, _, _)
NormalizeFrom(raws, k, posts) ==
    IF k > Len(raws) THEN [raised |-> FALSE, posts |-> posts]
    ELSE LET one == NormalizeRecord(raws[k], k)
         IN  CASE one.outcome = "raise" -> [raised |-> TRUE, posts |-> <<>>]
               [] one.outcome = "skip"  -> NormalizeFrom(raws, k + 1, posts)
               [] one.outcome = "keep"  ->
                      NormalizeFrom(raws, k + 1, Append(posts, one.post))

\* the loop without the retweet check of lines 177-180
RECURSIVE NormalizeFromNoRt(_, _, _)
NormalizeFromNoRt(raws, k, posts) ==
    IF k > Len(raws) THEN [raised |-> FALSE, posts |-> posts]
    ELSE LET one == NormalizeRecordNoRt(raws[k], k)
         IN  CASE one.outcome = "raise" -> [raised |-> TRUE, posts |-> <<>>]
               [] one.outcome = "skip"  -> NormalizeFromNoRt(raws, k + 1, posts)
               [] one.outcome = "keep"  ->
                      NormalizeFromNoRt(raws, k + 1, Append(posts, one.post))

\* filter_posts without the retweet check of generate_posts.py:143-145
FilterPostsNoRt(posts) ==
    SelectSeq(posts, LAMBDA post :
        /\ ~(post.text.len < 30)
        /\ ~(post.text.no_urls < 20))

ScrapeInit ==
    /\ dashboard_file = AbsentFile
    /\ drafts_file = AbsentFile
    /\ call = NoCall
    /\ RWIdle
    /\ GenIdle
    /\ PureIdle
    /\ ImgIdle
    /\ MainIdle
    /\ PollIdle
    /\ raw_posts \in SeqsUpTo(RawRecords, MaxRaw)
    /\ s_pc = "fetched"
    /\ posts_out = <<>>

NormalizePosts ==
    /\ s_pc = "fetched"
    /\ LET result == NormalizeFrom(raw_posts, 1, <<>>)
       IN  /\ s_pc' = IF result.raised THEN "raised" ELSE "returned"
           /\ posts_out' = result.posts
    /\ UNCHANGED <<storeVars, rwVars, genVars, pureVars, imgVars, mainVars, raw_posts,
                   waited, status, polls>>

NextScrape == NormalizePosts

SpecScrape == ScrapeInit /\ [][NextScrape]_vars

(***************************************************************************)
(* The wait for the actor run: scrape_all_accounts, scrape_x.py:80-109.    *)
(* Times are seconds.                                                      *)
(***************************************************************************)

\* line 82
max_wait == 180

\* lines 86-87: time.sleep(10) and waited += 10
PollStep == 10

MaxPolls == max_wait \div PollStep

\* What the status request of lines 88-90 gives: a status of the actor run,
\* or "exception" when the request raises a requests.RequestException.
RunStatuses == {"READY", "RUNNING", "SUCCEEDED", "FAILED", "ABORTED", "TIMED-OUT"}

PollOutcomes == RunStatuses \cup {"exception"}

\* line 95
RunFailed(st) == st \in {"FAILED", "ABORTED", "TIMED-OUT"}

\* line 85: while waited < max_wait
KeepWaitingForever(w) == TRUE

KeepWaiting(w) == w < max_wait

\* line 99: if waited >= max_wait
WaitedOut(w) == w >= max_wait

PollInit ==
    /\ StoreIdle
    /\ RWIdle
    /\ GenIdle
    /\ PureIdle
    /\ ImgIdle
    /\ MainIdle
    /\ PollIdle
    /\ raw_posts = <<>>
    /\ s_pc = "polling"
    /\ posts_out = <<>>

\* lines 85-97: one turn of the loop.  A RequestException is caught at line
\* 188 and the call returns []; SUCCEEDED breaks; a failed run returns [].
PollStatus ==
    /\ s_pc = "polling"
    /\ KeepWaiting(waited)
    /\ waited' = waited + PollStep
    /\ polls' = polls + 1
    /\ \E st \in PollOutcomes :
          /\ status' = st
          /\ s_pc' = CASE st = "exception"  -> "returned"
                       [] st = "SUCCEEDED"  -> "polled"
                       [] RunFailed(st)     -> "returned"
                       [] OTHER -> IF KeepWaiting(waited') THEN "polling" ELSE "polled"
    /\ UNCHANGED <<storeVars, rwVars, genVars, pureVars, imgVars, mainVars,
                   raw_posts, posts_out>>

\* lines 99-109: after the loop: [] when the wait is used up, else the
\* dataset is fetched; that request too may raise a RequestException
LeaveLoop ==
    /\ s_pc = "polled"
    /\ IF WaitedOut(waited)
       THEN /\ s_pc' = "returned"
            /\ UNCHANGED <<raw_posts, status>>
       ELSE \/ /\ s_pc' = "returned"
               /\ status' = "exception"
               /\ UNCHANGED raw_posts
            \/ /\ s_pc' = "fetched"
               /\ raw_posts' \in SeqsUpTo(RawRecords, MaxFetched)
               /\ UNCHANGED status
    /\ UNCHANGED <<storeVars, rwVars, genVars, pureVars, imgVars, mainVars,
                   posts_out, waited, polls>>

NextPoll == PollStatus \/ LeaveLoop \/ NormalizePosts

\* every step ends: sleep(10), and requests with timeout=30
SpecPoll == PollInit /\ [][NextPoll]_vars /\ WF_vars(NextPoll)

\* C18: the loop polls at most 18 times, 10 seconds apart, and the call
\* ends whatever the polls report; when a poll reports FAILED, ABORTED or
\* TIMED-OUT, or when no poll reported SUCCEEDED, the call returns the empty
\* list.
C18_BoundedWait ==
    /\ [](/\ polls <= MaxPolls
          /\ waited = polls * PollStep
          /\ waited <= max_wait
          /\ RunFailed(status) => s_pc = "returned" /\ posts_out = <<>>
          /\ status # "SUCCEEDED" =>
                /\ s_pc \in {"polling", "polled", "returned"}
                /\ raw_posts = <<>> /\ posts_out = <<>>)
    /\ <>(s_pc \in {"returned", "raised"})

\* C24: a call whose poll read SUCCEEDED, on any of the 18 polls, goes on
\* to fetch the dataset; it does not return the empty list for a timeout
\* (only a failed dataset request keeps it from the records).
C24_SuccessInWindow ==
    [][(s_pc = "polled" /\ status = "SUCCEEDED" /\ polls <= MaxPolls) =>
           (s_pc' = "fetched" \/ status' = "exception")]_vars

\* a call that polled 18 times, read RUNNING each time, and returned []
C18_Witness ==
    /\ s_pc = "returned"
    /\ polls = MaxPolls
    /\ waited = max_wait
    /\ status = "RUNNING"
    /\ posts_out = <<>>

\* the positions of the records that lines 117-182 read and keep
KeptWellFormed ==
    {k \in 1..Len(raw_posts) : NormalizeRecord(raw_posts[k], k).outcome = "keep"}

\* C8: a malformed record never makes scrape_all_accounts raise; it is
\* dropped or defaulted, and every well-formed record of the batch is still
\* normalized and returned.
C8_RecordIsolation ==
    s_pc # "fetched" =>
        /\ s_pc = "returned"
        /\ {posts_out[j].id : j \in 1..Len(posts_out)} = KeptWellFormed

\* C22: of the records that have a text, those whose timestamp resolves to
\* a time before the cutoff are discarded and nothing else happens to them;
\* a record whose timestamp resolves to the cutoff or later, a missing or
\* unparseable timestamp resolving to the capture time, is not discarded
\* for age (only a retweet among them is left out); every post of the
\* output has created_at at the cutoff or later.
C22_TimeWindow ==
    LET Read == {k \in 1..Len(raw_posts) :
                    ~raw_posts[k].noResults /\ HasText(raw_posts[k])}
        Old == {k \in Read :
                    ParseCreated(raw_posts[k].created).at < CutoffTime}
        Kept == {posts_out[j].id : j \in 1..Len(posts_out)}
    IN  s_pc # "fetched" =>
            /\ \A j \in 1..Len(posts_out) : posts_out[j].created_at >= CutoffTime
            /\ Kept \cap Old = {}
            /\ Read \subseteq Old => s_pc = "returned" /\ posts_out = <<>>
            /\ s_pc = "returned" =>
                  \A k \in Read \ Old : raw_posts[k].rt \/ k \in Kept

\* C14: no record whose text starts with "RT @" is in the normalizer's
\* output, filter_posts lets no such text through either, and the posts that
\* pass the filter are the same when the normalizer's retweet check or the
\* filter's retweet check is taken out.
C14_RetweetDefense ==
    LET without == NormalizeFromNoRt(raw_posts, 1, <<>>)
    IN  s_pc # "fetched" =>
            /\ \A j \in 1..Len(posts_out) :
                  ~posts_out[j].text.rt /\ ~raw_posts[posts_out[j].id].rt
            /\ \A post \in Range(FilterPosts(without.posts)) : ~post.text.rt
            /\ without.raised <=> s_pc = "raised"
            /\ FilterPosts(without.posts) = FilterPosts(posts_out)
            /\ FilterPostsNoRt(posts_out) = FilterPosts(posts_out)

\* a returned call over a retweet that only the retweet check stops, long
\* enough to pass the filter's length checks, next to a post that is kept
C14_Witness ==
    /\ s_pc = "returned"
    /\ Len(posts_out) > 0
    /\ \E k \in 1..Len(raw_posts) :
          /\ raw_posts[k].rt
          /\ NormalizeRecordNoRt(raw_posts[k], k).outcome = "keep"
          /\ FilterPostsNoRt(<<NormalizeRecordNoRt(raw_posts[k], k).post>>) # <<>>

\* C15: a record with no string that is not empty under full_text or text
\* is skipped without raising, whatever its other fields hold: no post of
\* the output comes from such a record or has an empty text, a dataset of
\* such records alone gives the empty output, and the call raises only if it
\* raises on the records that have a text.
C15_MissingText ==
    LET NoText == {k \in 1..Len(raw_posts) :
                      raw_posts[k].full_text # "str" /\ raw_posts[k].text # "str"}
    IN  s_pc # "fetched" =>
            /\ \A j \in 1..Len(posts_out) :
                  posts_out[j].id \notin NoText /\ posts_out[j].text.len > 0
            /\ NoText = 1..Len(raw_posts) => s_pc = "returned" /\ posts_out = <<>>
            /\ NormalizeFrom(SelectSeq(raw_posts, LAMBDA raw :
                                  raw.full_text = "str" \/ raw.text = "str"),
                              1, <<>>).raised <=> s_pc = "raised"

\* a returned call that kept a post and skipped a record without text whose
\* author is null or whose timestamp has no offset
C15_Witness ==
    /\ s_pc = "returned"
    /\ Len(posts_out) > 0
    /\ \E k \in 1..Len(raw_posts) :
          /\ raw_posts[k].full_text # "str" /\ raw_posts[k].text # "str"
          /\ ~raw_posts[k].noResults
          /\ raw_posts[k].author = "null" \/ raw_posts[k].created.form = "iso_naive"

(***************************************************************************)
(* Claims on the draft store                                               *)
(***************************************************************************)

\* C1: saving the same batch a second time leaves the rolling store as the
\* first save left it, in content and order.
C1_IdempotentMerge ==
    call.result # "none" =>
        StoreAfter(dashboard_file, call.batch) = dashboard_file

\* a save that merged one draft of its batch and evicted another, so that a
\* replay finds an id of the batch missing from the store
C1_Witness ==
    /\ call.result = "ok"
    /\ Len(dashboard_file.content) = MaxKept
    /\ \E d \in Range(call.batch) : d.id \in Ids(dashboard_file.content)
    /\ \E d \in Range(call.batch) : d.id \notin Ids(dashboard_file.content)

\* C2: after a merge the store holds at most MaxKept drafts, and they are
\* exactly the MaxKept most recent drafts of the union of the previous store
\* and the batch.
C2_Retention ==
    call.result = "ok" =>
        LET U == Range(LoadExisting(call.before).drafts) \cup Range(call.batch)
            R == Range(dashboard_file.content)
        IN  /\ Len(dashboard_file.content) <= MaxKept
            /\ R \subseteq U
            /\ Cardinality(R) = Min(MaxKept, Cardinality(U))
            /\ \A r \in R : \A u \in U \ R : r.created_at >= u.created_at

\* C3: the rolling store never holds two drafts with the same id.
C3_IdUnique ==
    Cardinality(Ids(dashboard_file.content)) = Len(dashboard_file.content)

\* C5: once the dated file has been written, no later save changes it.
C5_SnapshotImmutable ==
    [][drafts_file.kind = "json" => drafts_file' = drafts_file]_vars

\* C6: the dated file holds exactly the batch of the save that wrote it, in
\* batch order, whatever the rolling store holds.
C6_SnapshotIsBatch ==
    call.result # "none" => drafts_file = JsonFile(call.batch)

\* a batch that a sort would reorder and a merge would shorten, saved over a
\* store that already held one of its drafts
C6_Witness ==
    /\ call.result = "ok"
    /\ Len(call.batch) = MaxBatch
    /\ call.batch # SortByCreatedDesc(call.batch)
    /\ \E d \in Range(call.batch) : d.id \in Ids(call.before.content)
    /\ drafts_file.content = call.batch
    /\ dashboard_file.content # call.batch

\* C7: over a missing or unparseable store, save_drafts does not fail and
\* leaves the store holding the batch alone, sorted and truncated.
C7_CorruptOrAbsent ==
    (call.result # "none" /\ call.before.kind \in {"absent", "malformed", "undecodable"}) =>
        /\ call.result = "ok"
        /\ dashboard_file = JsonFile(MergeDrafts(<<>>, call.batch))

(***************************************************************************)
(* The image stage: generate_images.process_drafts, lines 192-261, beside  *)
(* save_drafts.  It loads the rolling store, gives some of its drafts an   *)
(* image_path and an image_theme, and writes its list back.                *)
(***************************************************************************)

\* line 213: d.get("image_path") is set
HasImage(d) == "image_path" \in DOMAIN d

\* lines 245-250
WithImage(d) == [image_path |-> "png", image_theme |-> "meme"] @@ d

\* lines 211-215: drafts_needing_images, the drafts that go to the image
\* model
SentForImages(drafts) ==
    SelectSeq(drafts, LAMBDA d : ~HasImage(d) /\ d.status = "pending")

NeedingImagesAll(drafts) == Ids(drafts)

\* lines 211-215: the ids of the drafts without an image that are pending
NeedingImages(drafts) ==
    {drafts[k].id : k \in {j \in 1..Len(drafts) :
                              ~HasImage(drafts[j]) /\ drafts[j].status = "pending"}}

\* lines 245-250: the first draft of the list with the id is updated
UpdateImages(drafts, got) ==
    [k \in 1..Len(drafts) |->
        IF /\ drafts[k].id \in got
           /\ \A j \in 1..(k - 1) : drafts[j].id # drafts[k].id
        THEN WithImage(drafts[k]) ELSE drafts[k]]

\* line 214: the store may hold a draft that is no longer pending
ReviewedDraft == [Draft(1) EXCEPT !.status = "approved"]

ImgInit ==
    /\ dashboard_file \in StoreFiles \cup {JsonFile(<<ReviewedDraft>>)}
    /\ drafts_file = AbsentFile
    /\ call = NoCall
    /\ RWIdle
    /\ GenIdle
    /\ ScrapeIdle
    /\ PureIdle
    /\ ImgIdle
    /\ MainIdle

\* lines 195-226: no file, nothing to do (also when date_str leaves no
\* draft), or the list is loaded; json.load is not guarded
LoadDrafts ==
    /\ i_pc # "loaded"
    /\ CASE dashboard_file.kind = "absent" ->
                i_pc' = "returned" /\ i_drafts' = <<>>
         [] dashboard_file.kind \in {"malformed", "undecodable"} ->
                i_pc' = "raised" /\ i_drafts' = <<>>
         [] dashboard_file.kind = "json" ->
                \/ /\ NeedingImages(dashboard_file.content) # {}
                   /\ i_pc' = "loaded"
                   /\ i_drafts' = dashboard_file.content
                \/ /\ i_pc' = "returned"
                   /\ i_drafts' = dashboard_file.content
    /\ i_run' = [NoRun EXCEPT !.loaded = i_drafts']
    /\ UNCHANGED <<storeVars, rwVars, genVars, scrapeVars, pureVars, mainVars>>

\* lines 228-261: generate_image gives a path for some drafts and None for
\* the others; the list is dumped over the store
WriteBack ==
    /\ i_pc = "loaded"
    /\ \E got \in SUBSET NeedingImages(i_drafts) :
          /\ i_drafts' = UpdateImages(i_drafts, got)
          /\ dashboard_file' = JsonFile(UpdateImages(i_drafts, got))
          /\ i_run' = [i_run EXCEPT !.sent = SentForImages(i_drafts),
                                    !.got = got]
    /\ i_pc' = "written"
    /\ UNCHANGED <<drafts_file, call, rwVars, genVars, scrapeVars, pureVars,
                   mainVars>>

\* generate_posts.py:334: a generation run saves the one draft it made
SaveOneDraft ==
    /\ \E d \in DraftPool : SaveDrafts(<<d>>)
    /\ UNCHANGED <<rwVars, genVars, scrapeVars, pureVars,
                   imgVars, mainVars>>

NextImg == SaveOneDraft \/ LoadDrafts \/ WriteBack

SpecImg == ImgInit /\ [][NextImg]_vars

\* C20: whenever dashboard/drafts.json holds a list, written by save_drafts
\* or by the image stage, its drafts are in non-increasing order of
\* created_at.
C20_StoreOrder ==
    dashboard_file.kind = "json" =>
        \A i, j \in 1..Len(dashboard_file.content) :
            i < j => dashboard_file.content[i].created_at
                        >= dashboard_file.content[j].created_at

\* the image stage wrote back a list of drafts of different times, one of
\* them with an image, that it had loaded before save_drafts merged a
\* draft at least as recent into the store
C20_Witness ==
    /\ i_pc = "written"
    /\ dashboard_file = JsonFile(i_drafts)
    /\ Len(i_drafts) > 1
    /\ i_drafts[1].created_at > i_drafts[Len(i_drafts)].created_at
    /\ \E d \in Range(i_drafts) : HasImage(d)
    /\ call.result = "ok"
    /\ Ids(call.before.content) = Ids(i_drafts)
    /\ \E d \in Range(call.batch) :
          d.id \notin Ids(i_drafts) /\ d.created_at >= i_drafts[1].created_at

\* C23: the list process_drafts writes over the store has the drafts it
\* loaded at its start, as many and in the same order; a draft differs from
\* the loaded one only by an added image_path and image_theme, and only if
\* it was pending without an image_path and its image was generated; no
\* draft sent to the image model had an image_path.
C23_ImageFrame ==
    i_pc = "written" =>
        /\ Len(i_drafts) = Len(i_run.loaded)
        /\ \A k \in 1..Len(i_drafts) :
              \/ i_drafts[k] = i_run.loaded[k]
              \/ /\ ~HasImage(i_run.loaded[k])
                 /\ i_run.loaded[k].status = "pending"
                 /\ i_run.loaded[k].id \in i_run.got
                 /\ DOMAIN i_drafts[k] =
                        DOMAIN i_run.loaded[k] \cup {"image_path", "image_theme"}
                 /\ \A f \in DOMAIN i_run.loaded[k] :
                        i_drafts[k][f] = i_run.loaded[k][f]
        /\ \A k \in 1..Len(i_run.sent) : ~HasImage(i_run.sent[k])

\* the stage wrote back a reviewed draft as it was and gave an image to a
\* pending draft beside it
C23_Witness ==
    /\ i_pc = "written"
    /\ dashboard_file = JsonFile(i_drafts)
    /\ \E k \in 1..Len(i_drafts) :
          i_drafts[k].status = "approved" /\ i_drafts[k] = i_run.loaded[k]
    /\ \E k \in 1..Len(i_drafts) :
          /\ HasImage(i_drafts[k])
          /\ ~HasImage(i_run.loaded[k])
          /\ i_drafts[k].id \in i_run.got

(***************************************************************************)
(* The write of the rolling store, step by step, beside a reader.          *)
(* generate_posts.py:236-237 opens dashboard/drafts.json with mode "w",    *)
(* which empties the file in place, and json.dump then writes the list     *)
(* through the file's buffer: the text on disk is empty, then a prefix,    *)
(* and the whole list once the with block closes the file.  The reader is  *)
(* generate_images.py:196-203 (process_drafts) or the dashboard page.      *)
(***************************************************************************)

\* lines 202-236: the dated file, the load, the merge, and open(..., "w")
OpenStore(batch) ==
    /\ w_pc = "idle"
    /\ drafts_file' = DatedFile(batch)
    /\ seen' = NoRead
    /\ IF LoadExisting(dashboard_file).raised
       THEN /\ call' = [batch |-> batch, before |-> dashboard_file, result |-> "raised"]
            /\ UNCHANGED <<dashboard_file, w_pc, w_pending>>
       ELSE /\ call' = [batch |-> batch, before |-> dashboard_file, result |-> "writing"]
            /\ w_pending' = MergeDrafts(LoadExisting(dashboard_file).drafts, batch)
            /\ dashboard_file' = MalformedFile(<<>>)
            /\ w_pc' = "writing"

\* line 237: the buffer is flushed with the list written in part
FlushStore ==
    /\ w_pc = "writing"
    /\ \E k \in (Len(dashboard_file.content) + 1)..Len(w_pending) :
           dashboard_file' = MalformedFile(SubSeq(w_pending, 1, k))
    /\ UNCHANGED <<drafts_file, call, w_pc, w_pending, seen, genVars, scrapeVars,
                   pureVars, imgVars, mainVars>>

\* line 237: the with block ends, the rest is flushed and the file closed
CloseStore ==
    /\ w_pc = "writing"
    /\ dashboard_file' = JsonFile(w_pending)
    /\ call' = [call EXCEPT !.result = "ok"]
    /\ w_pc' = "idle"
    /\ UNCHANGED <<drafts_file, w_pending, seen, genVars, scrapeVars, pureVars,
                   imgVars, mainVars>>

\* generate_images.py:200-201: a reader opens and reads the file
ReadStore ==
    /\ seen' = [file |-> dashboard_file, during |-> w_pc = "writing", read |-> TRUE]
    /\ UNCHANGED <<dashboard_file, drafts_file, call, w_pc, w_pending, genVars,
                   scrapeVars, pureVars, imgVars, mainVars>>

OpenStoreCall ==
    /\ \E batch \in Batches : OpenStore(batch)
    /\ UNCHANGED <<genVars, scrapeVars, pureVars,
                   imgVars, mainVars>>

NextRW == OpenStoreCall \/ FlushStore \/ CloseStore \/ ReadStore

SpecRW == Init /\ [][NextRW]_vars

\* C4: a reader that reads the rolling store while save_drafts writes it
\* reads the whole previous store or the whole new one.
C4_AtomicPersist ==
    seen.during => seen.file \in {call.before, JsonFile(w_pending)}

(***************************************************************************)
(* The pipeline: main.py, run_script (lines 18-35) and main (lines 38-59). *)
(* m_trace lists the stages main called run_script for and saw end.        *)
(***************************************************************************)

\* what subprocess.run may give for a stage: the exit status of the child
\* (negative when a signal killed it), or an exception when the child
\* cannot be launched
StageOutcomes ==
    {[launched |-> TRUE, returncode |-> c] : c \in {-15, -9, 0, 1, 2, 130}}
        \cup {[launched |-> FALSE, returncode |-> 0]}

RunScriptByCode(outcome) == outcome.returncode = 0

\* lines 26-35: True when the child ran and its returncode is 0; False on
\* any other returncode and on the exception of a launch that failed
RunScript(outcome) == outcome.launched /\ outcome.returncode = 0

StageEvent(stage, event, outcome) ==
    [stage |-> stage, event |-> event,
     launched |-> outcome.launched, returncode |-> outcome.returncode]

NoOutcome == [launched |-> TRUE, returncode |-> 0]

MainInit ==
    /\ StoreIdle
    /\ RWIdle
    /\ GenIdle
    /\ ScrapeIdle
    /\ PureIdle
    /\ ImgIdle
    /\ MainIdle

\* line 46: run_script("scrape_x.py") is called
StartScrape ==
    /\ m_pc = "idle"
    /\ m_pc' = "scraping"
    /\ m_trace' = Append(m_trace, StageEvent("scrape_x.py", "start", NoOutcome))
    /\ UNCHANGED <<storeVars, rwVars, genVars, scrapeVars, pureVars, imgVars>>

\* lines 26-35 and 46-48: subprocess.run returns when the child has ended;
\* a failure is a warning and main goes on
EndScrape ==
    /\ m_pc = "scraping"
    /\ \E outcome \in StageOutcomes :
          m_trace' = Append(m_trace, StageEvent("scrape_x.py", "end", outcome))
    /\ m_pc' = "scraped"
    /\ UNCHANGED <<storeVars, rwVars, genVars, scrapeVars, pureVars, imgVars>>

\* line 52: run_script("generate_posts.py") is called
StartGenerate ==
    /\ m_pc = "scraped"
    /\ m_pc' = "generating"
    /\ m_trace' = Append(m_trace, StageEvent("generate_posts.py", "start", NoOutcome))
    /\ UNCHANGED <<storeVars, rwVars, genVars, scrapeVars, pureVars, imgVars>>

\* lines 26-35
EndGenerate ==
    /\ m_pc = "generating"
    /\ \E outcome \in StageOutcomes :
          m_trace' = Append(m_trace, StageEvent("generate_posts.py", "end", outcome))
    /\ m_pc' = "generated"
    /\ UNCHANGED <<storeVars, rwVars, genVars, scrapeVars, pureVars, imgVars>>

\* lines 52-54 and 68: sys.exit(1) when run_script gave False, else main returns
\* and the interpreter exits with 0
ExitPipeline ==
    /\ m_pc = "generated"
    /\ LET generate == m_trace[Len(m_trace)]
           code == IF RunScript(generate) THEN 0 ELSE 1
       IN  m_trace' = Append(m_trace,
                             StageEvent("main.py", "exit",
                                        [launched |-> TRUE, returncode |-> code]))
    /\ m_pc' = "exited"
    /\ UNCHANGED <<storeVars, rwVars, genVars, scrapeVars, pureVars, imgVars>>

NextMain ==
    StartScrape \/ EndScrape \/ StartGenerate \/ EndGenerate \/ ExitPipeline

SpecMain == MainInit /\ [][NextMain]_vars

\* where m_trace has the event of the stage
StageAt(stage, event) ==
    {i \in 1..Len(m_trace) :
        m_trace[i].stage = stage /\ m_trace[i].event = event}

\* C25: the generate stage starts only after the scrape stage has ended,
\* and no scrape step follows; whatever the scrape stage gave, the step
\* after its end starts the generate stage, so the pipeline never exits
\* without having run it; the exit status is not 0 exactly when the generate
\* stage could not be launched or ended with a returncode that is not 0.
C25_Orchestration ==
    /\ [](/\ \A g \in StageAt("generate_posts.py", "start") :
                /\ \E e \in StageAt("scrape_x.py", "end") : e < g
                /\ \A i \in 1..Len(m_trace) :
                      m_trace[i].stage = "scrape_x.py" => i < g
          /\ \A x \in StageAt("main.py", "exit") :
                /\ StageAt("generate_posts.py", "start") # {}
                /\ \E e \in StageAt("generate_posts.py", "end") :
                      /\ e < x
                      /\ m_trace[x].returncode # 0 <=>
                            (\/ ~m_trace[e].launched
                             \/ m_trace[e].returncode # 0))
    /\ [][m_pc = "scraped" => m_pc' = "generating"]_vars

\* the scrape stage was killed, the generate stage ran after it and could
\* not be launched or ended with a returncode that is not 0, and the
\* pipeline exited with 1
C25_Witness ==
    /\ m_pc = "exited"
    /\ Len(m_trace) = 5
    /\ m_trace[2].stage = "scrape_x.py" /\ m_trace[2].returncode = -9
    /\ m_trace[3].stage = "generate_posts.py" /\ m_trace[3].event = "start"
    /\ ~m_trace[4].launched \/ m_trace[4].returncode = 2
    /\ m_trace[5].returncode = 1

====
